---- MODULE Spec2Model ----
(***************************************************************************)
(* Receipt OCR service: the Flask front door (api.py), its single          *)
(* background worker, the pipeline semaphore, the callback dispatcher and  *)
(* the extraction pipeline (pipeline.py, llm_normalize.py).                *)
(*                                                                         *)
(* Threads: the worker thread (api.py:201) and one thread per request in   *)
(* flight.  Every blocking call and every call whose outcome the code      *)
(* branches on is one step; the outcome is an input of the step.           *)
(***************************************************************************)
EXTENDS Integers, Sequences, FiniteSets, TLC

\* ------------------------------------------------------------------ bounds
MaxJobs == 2          \* async submissions accepted in one run
NumHandlers == 2      \* request threads alive at once
NumQuestions == 2     \* entries of the default question list that are kept

\* --------------------------------------------------------------- constants
CALLBACK_RETRIES == 2

Worker == 0
Handlers == 1..NumHandlers
Threads == {Worker} \cup Handlers

\* Python None, as a value of a receipt field and as a whole object.
NULL == "null"
None == [py_none |-> TRUE]
IsNone(x) == DOMAIN x = {"py_none"}

EmptyDict == [k \in {} |-> NULL]

RECEIPT_KEYS ==
  << "store_name", "shop_name", "date", "total_amount", "tax_amount",
     "gst_amount", "sales_tax", "received", "payable" >>

Range(s) == {s[i] : i \in 1..Len(s)}

AllQuestions == << "q1", "q2", "q3", "q4", "q5", "q6", "q7", "q8", "q9" >>

\* The built-in question list, cut to its first NumQuestions entries.
DEFAULT_QUESTIONS == SubSeq(AllQuestions, 1, NumQuestions)

\* What a request can carry in its "questions" form field: nothing (the
\* default list is used) or a non-empty list of its own.
QuestionLists == {DEFAULT_QUESTIONS}

\* ------------------------------------------------- llm_normalize.py, texts
\* A response text: pad = it has surrounding whitespace, fence = it holds a
\* closed ``` block ("closed"), a ``` with no closing one ("open") or none,
\* body = what is left inside.
Garbage == [kind |-> "garbage", obj |-> EmptyDict]
Array == [kind |-> "array", obj |-> EmptyDict]
Blank == [kind |-> "empty", obj |-> EmptyDict]
Object(d) == [kind |-> "object", obj |-> d]

FullObject == [k \in Range(RECEIPT_KEYS) |-> "v"]
PartialObject ==
  [k \in {"store_name", "total_amount", "extra", "_error"} |->
     IF k = "total_amount" THEN NULL ELSE "v"]

Bodies == {Garbage, Array, Blank, Object(FullObject), Object(PartialObject),
           Object(EmptyDict)}

Texts == [pad : BOOLEAN, fence : {"none", "closed", "open"}, body : Bodies]

EmptyText == [pad |-> FALSE, fence |-> "none", body |-> Blank]

\* str.strip()
Strip(text) == [text EXCEPT !.pad = FALSE]

\* re.search(r"```(?:json)?\s*([\s\S]*?)```", text): the inside of the first
\* closed fence, stripped.
FenceMatch(text) == text.fence = "closed"
FenceGroup(text) == [pad |-> FALSE, fence |-> "none", body |-> text.body]

\* `not text` on a str
IsEmptyText(text) == text.body = Blank /\ ~text.pad /\ text.fence = "none"

\* json.loads succeeds on text
JsonValid(text) == text.fence = "none" /\ text.body.kind \in {"array", "object"}

\* A parser that reports the text it was given, not the text it parsed.
_parse_ollama_response_RawIsInput(text0) ==
  LET text1 == Strip(text0)
      text == IF text1.fence # "none" /\ FenceMatch(text1)
                THEN FenceGroup(text1) ELSE text1
  IN  IF ~JsonValid(text)
        THEN [_raw |-> text0, _error |-> "Invalid JSON from LLM"]
      ELSE IF text.body.kind # "object"
        THEN [_raw |-> text0, _error |-> "LLM did not return a JSON object"]
      ELSE LET data == text.body.obj
           IN  [key \in Range(RECEIPT_KEYS) |->
                  IF key \in DOMAIN data /\ data[key] # NULL
                    THEN data[key] ELSE NULL]

_parse_ollama_response(text0) ==
  LET text1 == Strip(text0)
      text == IF text1.fence # "none" /\ FenceMatch(text1)
                THEN FenceGroup(text1) ELSE text1
  IN  IF ~JsonValid(text)
        THEN [_raw |-> text, _error |-> "Invalid JSON from LLM"]
      ELSE IF text.body.kind # "object"
        THEN [_raw |-> text, _error |-> "LLM did not return a JSON object"]
      ELSE LET data == text.body.obj
           IN  [key \in Range(RECEIPT_KEYS) |->
                  IF key \in DOMAIN data /\ data[key] # NULL
                    THEN data[key] ELSE NULL]

\* What ollama.chat can do: raise ResponseError (status 404 or another
\* one), raise anything else (the server cannot be reached, the request
\* times out, the ollama package is missing), or return a message.
ChatError(kind, msg) == [kind |-> kind, msg |-> msg, text |-> EmptyText]
ChatMessage(text) == [kind |-> "message", msg |-> "", text |-> text]

ChatOutcomes ==
  {ChatError("ResponseError", m) : m \in {"404 not found", "500"}}
  \cup {ChatError("Exception", "connection failed")}
  \cup {ChatMessage(t) : t \in Texts}

\* One outcome for each branch of _normalize_via_ollama and of
\* _parse_ollama_response.
ChatClasses ==
  { ChatError("ResponseError", "404 not found"),
    ChatError("ResponseError", "500"),
    ChatError("Exception", "connection failed"),
    ChatMessage(EmptyText),
    ChatMessage([pad |-> FALSE, fence |-> "none", body |-> Garbage]),
    ChatMessage([pad |-> FALSE, fence |-> "none", body |-> Array]),
    ChatMessage([pad |-> TRUE, fence |-> "closed", body |-> Object(PartialObject)]),
    ChatMessage([pad |-> FALSE, fence |-> "none", body |-> Object(FullObject)]) }

Raised(msg) == [raised |-> TRUE, error |-> msg, value |-> EmptyDict]
Returned(v) == [raised |-> FALSE, error |-> "", value |-> v]

_normalize_via_ollama(chat) ==
  IF chat.kind = "ResponseError"
    THEN IF chat.msg = "404 not found"
           THEN Returned([_error |-> "Ollama model not found"])
           ELSE Returned([_error |-> "Ollama error"])
  ELSE IF chat.kind = "Exception"
    THEN Raised(chat.msg)
  ELSE IF IsEmptyText(chat.text)
    THEN Returned([_error |-> "Empty response from Ollama"])
  ELSE Returned(_parse_ollama_response(chat.text))

normalize_receipt(chat) == _normalize_via_ollama(chat)

\* ------------------------------------------------------------- pipeline.py
\* A projection that is left out: the normalizer's dict goes out as it is.
ensure_receipt_schema_Passthrough(rec) == rec

ensure_receipt_schema(rec) ==
  [key \in Range(RECEIPT_KEYS) |->
     IF key \in DOMAIN rec THEN rec[key] ELSE NULL]

\* A receipt_meta built without the `if has_error else None`.
ReceiptMeta_NeverNone(rec) ==
  [k \in DOMAIN rec \cap {"_error", "_raw"} |-> rec[k]]

ReceiptMeta(rec) ==
  LET has_error == "_error" \in DOMAIN rec \/ "_raw" \in DOMAIN rec
  IN  IF has_error
        THEN [k \in DOMAIN rec \cap {"_error", "_raw"} |-> rec[k]]
        ELSE None

\* The loop of process_receipt_image over the questions: one entry per
\* question, appended in order; `fails` are the positions where
\* layoutlm.process raises.
parse_layoutlm_answer(raw) == raw.text

\* A loop whose try is around the whole loop: the first failure ends it.
RECURSIVE LayoutLMLoop_StopsAtFailure(_, _, _, _)
LayoutLMLoop_StopsAtFailure(qs, fails, i, results) ==
  IF i > Len(qs) THEN results
  ELSE IF i \in fails
    THEN Append(results, [question |-> qs[i], answer |-> "[Error: e]"])
  ELSE LayoutLMLoop_StopsAtFailure(qs, fails, i + 1,
         Append(results, [question |-> qs[i], answer |-> "answer"]))

RECURSIVE LayoutLMLoop(_, _, _, _)
LayoutLMLoop(qs, fails, i, results) ==
  IF i > Len(qs) THEN results
  ELSE LET entry ==
             IF i \in fails
               THEN [question |-> qs[i], answer |-> "[Error: e]"]
               ELSE [question |-> qs[i],
                     answer |-> parse_layoutlm_answer(
                                  [text |-> "answer", confidence |-> TRUE])]
       IN  LayoutLMLoop(qs, fails, i + 1, Append(results, entry))

\* donut.process returns a str (JSON or the tag-stripped fallback) or raises.
DonutOutcomes == {"json", "text", "raise"}
DonutData(o) ==
  CASE o = "json" -> [header |-> "parsed"]
    [] o = "text" -> [_raw_text |-> "text"]
    [] o = "raise" -> [_error |-> "donut failed"]

\* normalize_receipt onwards: what the call returns, or the exception that
\* leaves it.
PipelineOutcome(results, donut, chat) ==
  LET r == normalize_receipt(chat)
  IN  IF r.raised
        THEN r
        ELSE Returned([receipt |-> ensure_receipt_schema(r.value),
                       receipt_meta |-> ReceiptMeta(r.value),
                       layoutlm_results |-> results,
                       donut_data |-> donut])

\* One whole call of process_receipt_image(image, qs): the three stages in
\* their order, for given outcomes of the backends.
process_receipt_image(qs, fails, o, chat) ==
  PipelineOutcome(LayoutLMLoop(qs, fails, 1, << >>), DonutData(o), chat)

\* ------------------------------------------------------------------ state
VARIABLES
  pc,                \* where each thread is
  sem,               \* _pipeline_semaphore._value
  queue,             \* _job_queue, oldest first
  unfinished,        \* _job_queue.unfinished_tasks
  files,             \* job ids whose <job_id>.png exists in _temp_dir
  nextJob,           \* jobs created so far + 1 (stands for uuid4)
  job,               \* _worker: the job in hand
  payload,           \* _worker: the payload built for _send_callback
  path,              \* _worker: which branch built the payload
  callback_url,      \* _send_callback: CALLBACK_URL was set
  attempt,           \* _send_callback: loop variable
  questions,         \* the question list each thread calls the pipeline with
  layoutlm_results,  \* process_receipt_image, followed stage by stage:
  donut_data,        \*   its locals
  response,          \*   what ollama.chat did
  receipt,           \*   what normalize_receipt gave (or raised)
  result,            \*   and what the call gave
  failed,            \* observer: positions of the questions layoutlm.process raised on
  calls,             \* observer: the backend calls of the run, in their order
  _layoutlm,         \* pipeline._layoutlm: 0 = None, n = the n-th LayoutLMQA made
  _donut,            \* pipeline._donut: 0 = None, n = the n-th DonutExtractor made
  pipe,              \* LayoutLMQA objects whose self.pipe is set
  processor,         \* DonutExtractor objects whose self.processor is set
  model,             \* DonutExtractor objects whose self.model is set
  local,             \* process_receipt_image: layoutlm, donut and the loop position
  runs,              \* observer: times each construction was started
  completed,         \* observer: times each construction came to its end
  timedOut,          \* observer: the caller has waited longer than a wait limit
  submission,        \* process: the job a request has saved and not yet put
  cbCalls,           \* observer: _send_callback invocations per job
  posts,             \* observer: requests.post calls for the job in hand
  delivered,         \* observer: a POST for the job in hand succeeded
  removes,           \* observer: successful os.remove calls per job
  removeFailed,      \* observer: jobs for which an os.remove raised OSError
  dequeued,          \* observer: job ids in the order _job_queue.get returned them
  finished           \* observer: job ids in the order the worker left them

vars == << pc, sem, queue, unfinished, files, nextJob, job, payload, path,
           callback_url, attempt, questions, layoutlm_results, donut_data,
           response, receipt, result, failed, calls, _layoutlm, _donut, pipe,
           processor, model, local, runs, completed, timedOut, submission,
           cbCalls, posts, delivered, removes, removeFailed, dequeued,
           finished >>

workerVars == << job, payload, path, callback_url, attempt >>
lazyVars == << _layoutlm, _donut, pipe, processor, model, local, runs,
               completed >>
pipeVars == << layoutlm_results, donut_data, response, receipt, result, failed,
               calls, lazyVars >>
queueVars == << queue, unfinished, nextJob >>
observerVars == << cbCalls, posts, delivered, removes, removeFailed, dequeued,
                  finished >>

JobIds == 1..MaxJobs
NoJob == [job_id |-> 0, image_path |-> 0, questions |-> << >>]
NoPayload == [status |-> "none"]
NoResult == Returned(EmptyDict)
NoResponse == ChatMessage(EmptyText)

\* The constructions behind the two stages.
Parts == {"LayoutLMQA", "pipe", "DonutExtractor", "processor", "model"}
NoLocal == [layoutlm |-> 0, donut |-> 0, q |-> 0]

\* Module import: both globals are None and nothing has been built.
LazyInitial ==
  /\ _layoutlm = 0
  /\ _donut = 0
  /\ pipe = {}
  /\ processor = {}
  /\ model = {}
  /\ local = [t \in Threads |-> NoLocal]
  /\ runs = [k \in Parts |-> 0]
  /\ completed = [k \in Parts |-> 0]

PipelinePC == {"pipeline"}

\* Executions of process_receipt_image in flight: entered, not yet left.
InFlight == Cardinality({t \in Threads : pc[t] \in PipelinePC})

Init ==
  /\ pc = [t \in Threads |-> IF t = Worker THEN "get" ELSE "idle"]
  /\ sem = 1
  /\ queue = << >>
  /\ unfinished = 0
  /\ files = {}
  /\ nextJob = 1
  /\ job = NoJob
  /\ payload = NoPayload
  /\ path = "none"
  /\ callback_url = FALSE
  /\ attempt = 0
  /\ questions = [t \in Threads |-> << >>]
  /\ layoutlm_results = << >>
  /\ donut_data = EmptyDict
  /\ response = NoResponse
  /\ receipt = NoResult
  /\ result = NoResult
  /\ failed = {}
  /\ calls = << >>
  /\ LazyInitial
  /\ timedOut = [h \in Handlers |-> FALSE]
  /\ submission = [h \in Handlers |-> NoJob]
  /\ cbCalls = [j \in JobIds |-> 0]
  /\ posts = 0
  /\ delivered = FALSE
  /\ removes = [j \in JobIds |-> 0]
  /\ removeFailed = {}
  /\ dequeued = << >>
  /\ finished = << >>

Goto(t, label) == pc' = [pc EXCEPT ![t] = label]

\* ------------------------------- process_receipt_image, stage by stage
\* One call followed through its three stages, on the thread Caller.
Caller == 1

\* Question lists a call can be given: the default list and shorter or
\* foreign ones.
PipeQuestionLists ==
  {SubSeq(AllQuestions, 1, n) : n \in 1..NumQuestions} \cup {<< "custom" >>}

\* The calls a run makes: layoutlm.process(image, q) once for every entry it
\* appends to layoutlm_results, donut.process(image), and
\* normalize_receipt(layoutlm_results, donut_data).
QuestionCalls(results) ==
  [i \in 1..Len(results) |-> [stage |-> "layoutlm", question |-> results[i].question]]
DonutCall == [stage |-> "donut"]
NormalizeCall(results, donut) ==
  [stage |-> "normalize", layoutlm_results |-> results, donut_data |-> donut]

LayoutLMStage(t) ==
  /\ pc[t] = "layoutlm"
  /\ \E fails \in SUBSET (1..Len(questions[t])) :
       /\ layoutlm_results' = LayoutLMLoop(questions[t], fails, 1, << >>)
       /\ failed' = fails
  /\ calls' = calls \o QuestionCalls(layoutlm_results')
  /\ Goto(t, "donut")
  /\ UNCHANGED << sem, queueVars, files, workerVars, questions, donut_data,
                  response, receipt, result, timedOut, submission, lazyVars,
                  observerVars >>

\* A run that gives up on the whole-document stage once a question failed.
DonutStage_SkippedAfterFailure(t) ==
  /\ pc[t] = "donut"
  /\ IF failed # {}
       THEN donut_data' = [_error |-> "skipped"] /\ calls' = calls
       ELSE /\ \E o \in DonutOutcomes : donut_data' = DonutData(o)
            /\ calls' = Append(calls, DonutCall)
  /\ Goto(t, "normalize")
  /\ UNCHANGED << sem, queueVars, files, workerVars, questions,
                  layoutlm_results, response, receipt, result, failed,
                  timedOut, submission, lazyVars,
                  observerVars >>

DonutStage(t) ==
  /\ pc[t] = "donut"
  /\ \E o \in DonutOutcomes : donut_data' = DonutData(o)
  /\ calls' = Append(calls, DonutCall)
  /\ Goto(t, "normalize")
  /\ UNCHANGED << sem, queueVars, files, workerVars, questions,
                  layoutlm_results, response, receipt, result, failed,
                  timedOut, submission, lazyVars,
                  observerVars >>

NormalizeStage(t) ==
  /\ pc[t] = "normalize"
  /\ \E chat \in ChatOutcomes :
       /\ response' = chat
       /\ receipt' = normalize_receipt(chat)
       /\ result' = PipelineOutcome(layoutlm_results, donut_data, chat)
  /\ calls' = Append(calls, NormalizeCall(layoutlm_results, donut_data))
  /\ Goto(t, "done")
  /\ UNCHANGED << sem, queueVars, files, workerVars, questions,
                  layoutlm_results, donut_data, failed, timedOut, submission,
                  lazyVars,
                  observerVars >>

PipeInit ==
  /\ pc = [t \in Threads |->
            IF t = Worker THEN "get" ELSE IF t = Caller THEN "layoutlm" ELSE "idle"]
  /\ sem = 0
  /\ queue = << >>
  /\ unfinished = 0
  /\ files = {}
  /\ nextJob = 1
  /\ job = NoJob
  /\ payload = NoPayload
  /\ path = "none"
  /\ callback_url = FALSE
  /\ attempt = 0
  /\ \E qs \in PipeQuestionLists :
       questions = [t \in Threads |-> IF t = Caller THEN qs ELSE << >>]
  /\ layoutlm_results = << >>
  /\ donut_data = EmptyDict
  /\ response = NoResponse
  /\ receipt = NoResult
  /\ result = NoResult
  /\ failed = {}
  /\ calls = << >>
  /\ LazyInitial
  /\ timedOut = [h \in Handlers |-> FALSE]
  /\ submission = [h \in Handlers |-> NoJob]
  /\ cbCalls = [j \in JobIds |-> 0]
  /\ posts = 0
  /\ delivered = FALSE
  /\ removes = [j \in JobIds |-> 0]
  /\ removeFailed = {}
  /\ dequeued = << >>
  /\ finished = << >>

PipeNext ==
  \/ LayoutLMStage(Caller)
  \/ DonutStage(Caller)
  \/ NormalizeStage(Caller)

PipeSpec == PipeInit /\ [][PipeNext]_vars

\* How a call can end, over the question lists a request can carry:
\* FALSE = it returns, TRUE = it raises.
PipelineEndings ==
  UNION { { process_receipt_image(qs, fails, o, chat).raised :
              fails \in SUBSET (1..Len(qs)), o \in DonutOutcomes,
              chat \in ChatClasses } : qs \in QuestionLists }

\* ------------------------------------------------------- api.py, helpers
\* Truth value of a dict-or-None.
Truthy(x) == ~IsNone(x) /\ DOMAIN x # {}

\* The body of the 200 response of a sync request.
_build_receipt_response(res, include_raw) ==
  [receipt |-> res.receipt]
  @@ (IF include_raw
        THEN [raw |-> [layoutlm |-> res.layoutlm_results,
                       donut |-> res.donut_data]]
        ELSE EmptyDict)
  @@ (IF Truthy(res.receipt_meta)
        THEN [receipt_meta |-> res.receipt_meta]
        ELSE EmptyDict)

\* A failure payload with a status of its own.
FailedPayload_StatusError(job_id, error) ==
  [job_id |-> job_id, status |-> "error", error |-> error]

FailedPayload(job_id, error) ==
  [job_id |-> job_id, status |-> "failed", error |-> error]

\* A payload that reports a normalization with diagnostics as a failure.
CompletedPayload_FailedOnMeta(job_id, res, include_raw) ==
  IF Truthy(res.receipt_meta)
    THEN [job_id |-> job_id, status |-> "failed",
          error |-> "connection failed"]
    ELSE [job_id |-> job_id, status |-> "completed", receipt |-> res.receipt]
         @@ (IF include_raw
               THEN [raw |-> [layoutlm |-> res.layoutlm_results,
                              donut |-> res.donut_data]]
               ELSE EmptyDict)

CompletedPayload(job_id, res, include_raw) ==
  [job_id |-> job_id, status |-> "completed", receipt |-> res.receipt]
  @@ (IF include_raw
        THEN [raw |-> [layoutlm |-> res.layoutlm_results,
                       donut |-> res.donut_data]]
        ELSE EmptyDict)
  @@ (IF Truthy(res.receipt_meta)
        THEN [receipt_meta |-> res.receipt_meta]
        ELSE EmptyDict)

\* A queue that hands out the newest item first.
QueueGet_Newest(q) == [item |-> q[Len(q)], rest |-> SubSeq(q, 1, Len(q) - 1)]

\* queue.Queue.get: the oldest item.
QueueGet(q) == [item |-> Head(q), rest |-> Tail(q)]

\* An acquire() that never blocks.
CanAcquire_NeverBlocks == TRUE

\* threading.Semaphore(1): acquire() returns only while _value > 0.
CanAcquire == sem > 0

\* A decode-failure branch that falls through to the pipeline after its
\* callback instead of cleaning up and taking the next job.
AfterCallback_DecodeFallsThrough ==
  CASE path = "completed" -> "finally"
    [] path = "decode" -> "acquire"
    [] OTHER -> "except_remove"

\* Where _worker goes when _send_callback returns.
AfterCallback ==
  IF path = "completed" THEN "finally" ELSE "except_remove"

\* A loop that is one pass short: range(CALLBACK_RETRIES).
AttemptsAllowed_OneShort == CALLBACK_RETRIES

\* for attempt in range(CALLBACK_RETRIES + 1)
AttemptsAllowed == CALLBACK_RETRIES + 1

\* -------------------------------------------------------- api.py, process
\* An input check that comes after the throttle was taken.
RejectInput_AfterAcquire(h) ==
  /\ pc[h] = "idle"
  /\ CanAcquire
  /\ sem' = sem - 1
  /\ Goto(h, "reject")
  /\ UNCHANGED << queueVars, files, workerVars, questions, pipeVars, timedOut, submission,
                  observerVars >>

\* _load_image_from_request gave an error: the request is on its way out.
RejectInput(h) ==
  /\ pc[h] = "idle"
  /\ Goto(h, "reject")
  /\ UNCHANGED << sem, queueVars, files, workerVars, questions, pipeVars,
                  timedOut, submission, observerVars >>

\* `if err: return jsonify({"error": err}), 400`
RejectReturn(h) ==
  /\ pc[h] = "reject"
  /\ Goto(h, "idle")
  /\ UNCHANGED << sem, queueVars, files, workerVars, questions, pipeVars,
                  timedOut, submission, observerVars >>

\* A submission that waits for the throttle before it enqueues.
SubmitAsync_WaitsForThrottle(h) ==
  /\ pc[h] = "idle"
  /\ nextJob <= MaxJobs
  /\ CanAcquire
  /\ \E qs \in QuestionLists, saved \in BOOLEAN :
       IF saved
         THEN /\ files' = files \cup {nextJob}
              /\ queue' = Append(queue, [job_id |-> nextJob,
                                         image_path |-> nextJob,
                                         questions |-> qs])
              /\ unfinished' = unfinished + 1
              /\ nextJob' = nextJob + 1
         ELSE UNCHANGED << files, queueVars >>
  /\ UNCHANGED << pc, sem, workerVars, questions, pipeVars, timedOut, submission,
                  observerVars >>

\* Async mode: save the image under a new job id, enqueue, answer 202.  When
\* image.save raises nothing is enqueued and the request ends in a 500.
SubmitAsync(h) ==
  /\ pc[h] = "idle"
  /\ nextJob <= MaxJobs
  /\ \E qs \in QuestionLists, saved \in BOOLEAN :
       IF saved
         THEN /\ files' = files \cup {nextJob}
              /\ queue' = Append(queue, [job_id |-> nextJob,
                                         image_path |-> nextJob,
                                         questions |-> qs])
              /\ unfinished' = unfinished + 1
              /\ nextJob' = nextJob + 1
         ELSE UNCHANGED << files, queueVars >>
  /\ UNCHANGED << pc, sem, workerVars, questions, pipeVars, timedOut, submission,
                  observerVars >>

\* Sync mode: the request thread reaches _pipeline_semaphore.acquire().
SyncStart(h) ==
  /\ pc[h] = "idle"
  /\ \E qs \in QuestionLists :
       questions' = [questions EXCEPT ![h] = qs]
  /\ Goto(h, "acquire")
  /\ UNCHANGED << sem, queueVars, files, workerVars, pipeVars, timedOut, submission,
                  observerVars >>

\* Time passes while a caller is blocked in acquire(): its wait has now
\* lasted longer than any wait limit an operator may have configured.
WaitTimesOut(h) ==
  /\ pc[h] = "acquire"
  /\ ~CanAcquire
  /\ ~timedOut[h]
  /\ timedOut' = [timedOut EXCEPT ![h] = TRUE]
  /\ UNCHANGED << pc, sem, queueVars, files, workerVars, questions,
                  pipeVars, submission, observerVars >>

\* An acquire(timeout=...) whose failure is answered with a rejection.
SyncAcquire_Timeout(h) ==
  /\ pc[h] = "acquire"
  /\ \/ /\ CanAcquire
        /\ sem' = sem - 1
        /\ Goto(h, "pipeline")
        /\ UNCHANGED << questions, timedOut, submission >>
     \/ /\ timedOut[h]
        /\ questions' = [questions EXCEPT ![h] = << >>]
        /\ timedOut' = [timedOut EXCEPT ![h] = FALSE]
        /\ Goto(h, "idle")
        /\ UNCHANGED sem
  /\ UNCHANGED << queueVars, files, workerVars, pipeVars, submission,
                  observerVars >>

\* acquire() is called with no timeout: it returns once the value is
\* positive, however long that takes.
SyncAcquire(h) ==
  /\ pc[h] = "acquire"
  /\ CanAcquire
  /\ sem' = sem - 1
  /\ Goto(h, "pipeline")
  /\ UNCHANGED << queueVars, files, workerVars, questions, pipeVars,
                  timedOut, submission, observerVars >>

\* process_receipt_image runs to its return or its exception, and the
\* finally clause releases, whatever happened.  The response is 200 with the
\* receipt or 500 with the error.
SyncExit(h) ==
  /\ pc[h] = "pipeline"
  /\ \E raised \in PipelineEndings : raised \in BOOLEAN
  /\ sem' = sem + 1
  /\ questions' = [questions EXCEPT ![h] = << >>]
  /\ timedOut' = [timedOut EXCEPT ![h] = FALSE]
  /\ Goto(h, "idle")
  /\ UNCHANGED << queueVars, files, workerVars, pipeVars, submission,
                  observerVars >>

\* -------------------------------------------------------- api.py, _worker
\* A worker that takes the throttle for the whole job, from the dequeue on.
WorkerGet_UnderThrottle ==
  /\ pc[Worker] = "get"
  /\ queue # << >>
  /\ CanAcquire
  /\ sem' = sem - 1
  /\ queue' = QueueGet(queue).rest
  /\ job' = QueueGet(queue).item
  /\ dequeued' = Append(dequeued, job'.job_id)
  /\ Goto(Worker, "open")
  /\ UNCHANGED << unfinished, nextJob, files, payload, path,
                  callback_url, attempt, questions, pipeVars, timedOut,
                  submission, cbCalls, posts, delivered, removes,
                  removeFailed, finished >>

\* job = _job_queue.get(); `if job is None: break` ends the loop.
WorkerGet ==
  /\ pc[Worker] = "get"
  /\ queue # << >>
  /\ queue' = QueueGet(queue).rest
  /\ IF IsNone(QueueGet(queue).item)
       THEN /\ Goto(Worker, "stopped")
            /\ UNCHANGED << job, dequeued >>
       ELSE /\ job' = QueueGet(queue).item
            /\ dequeued' = Append(dequeued, job'.job_id)
            /\ Goto(Worker, "open")
  /\ UNCHANGED << sem, unfinished, nextJob, files, payload, path,
                  callback_url, attempt, questions, pipeVars, timedOut, submission,
                  cbCalls, posts, delivered, removes, removeFailed, finished >>

\* A decode-failure branch that forgets the callback.
WorkerOpen_NoCallback ==
  /\ pc[Worker] = "open"
  /\ \E decoded \in BOOLEAN :
       /\ decoded => job.image_path \in files
       /\ IF decoded
            THEN /\ Goto(Worker, "acquire")
                 /\ UNCHANGED << payload, path >>
            ELSE /\ payload' = NoPayload
                 /\ path' = "decode"
                 /\ Goto(Worker, "except_remove")
  /\ UNCHANGED << sem, queueVars, files, job, callback_url, attempt,
                  questions, pipeVars, timedOut, submission, observerVars >>

\* Image.open(image_path).convert("RGB"): fails when the file is missing and
\* can fail when it is there.
WorkerOpen ==
  /\ pc[Worker] = "open"
  /\ \E decoded \in BOOLEAN :
       /\ decoded => job.image_path \in files
       /\ IF decoded
            THEN /\ Goto(Worker, "acquire")
                 /\ UNCHANGED << payload, path >>
            ELSE /\ payload' = FailedPayload(job.job_id, "Failed to load image")
                 /\ path' = "decode"
                 /\ Goto(Worker, "send_callback")
  /\ UNCHANGED << sem, queueVars, files, job, callback_url, attempt,
                  questions, pipeVars, timedOut, submission, observerVars >>

WorkerAcquire ==
  /\ pc[Worker] = "acquire"
  /\ CanAcquire
  /\ sem' = sem - 1
  /\ questions' = [questions EXCEPT ![Worker] = job.questions]
  /\ Goto(Worker, "pipeline")
  /\ UNCHANGED << queueVars, files, workerVars, pipeVars, timedOut, submission,
                  observerVars >>

\* A release that is not in a finally clause: skipped when the call raises.
WorkerExit_NoReleaseOnRaise ==
  /\ pc[Worker] = "pipeline"
  /\ \E fails \in SUBSET (1..Len(questions[Worker])), o \in DonutOutcomes,
        chat \in ChatClasses, include_raw \in BOOLEAN :
       LET r == process_receipt_image(questions[Worker], fails, o, chat)
       IN  IF r.raised
             THEN /\ payload' = FailedPayload(job.job_id, r.error)
                  /\ path' = "exception"
                  /\ UNCHANGED sem
             ELSE /\ payload' = CompletedPayload(job.job_id, r.value, include_raw)
                  /\ path' = "completed"
                  /\ sem' = sem + 1
  /\ questions' = [questions EXCEPT ![Worker] = << >>]
  /\ Goto(Worker, "send_callback")
  /\ UNCHANGED << queueVars, files, job, callback_url, attempt, pipeVars,
                  timedOut, submission, observerVars >>

\* process_receipt_image runs to its return or its exception, and the inner
\* finally clause releases, whatever happened.  The payload is "completed"
\* with the receipt, or "failed" with str(e).
WorkerExit ==
  /\ pc[Worker] = "pipeline"
  /\ \E fails \in SUBSET (1..Len(questions[Worker])), o \in DonutOutcomes,
        chat \in ChatClasses, include_raw \in BOOLEAN :
       LET r == process_receipt_image(questions[Worker], fails, o, chat)
       IN  IF r.raised
             THEN /\ payload' = FailedPayload(job.job_id, r.error)
                  /\ path' = "exception"
             ELSE /\ payload' = CompletedPayload(job.job_id, r.value, include_raw)
                  /\ path' = "completed"
  /\ sem' = sem + 1
  /\ questions' = [questions EXCEPT ![Worker] = << >>]
  /\ Goto(Worker, "send_callback")
  /\ UNCHANGED << queueVars, files, job, callback_url, attempt, pipeVars,
                  timedOut, submission, observerVars >>

\* A _send_callback without the early return: it posts even with no URL.
WorkerSendCallback_AlwaysPosts ==
  /\ pc[Worker] = "send_callback"
  /\ cbCalls' = [cbCalls EXCEPT ![job.job_id] = @ + 1]
  /\ \E url \in BOOLEAN : callback_url' = url
  /\ Goto(Worker, "post")
  /\ attempt' = 0
  /\ payload' = NoPayload
  /\ UNCHANGED << sem, queueVars, files, job, path, questions, pipeVars,
                  timedOut, submission, posts, delivered, removes, removeFailed, dequeued,
                  finished >>

\* _send_callback, up to the loop: without CALLBACK_URL it returns at once.
\* From here on the payload is only the body of the POSTs.
WorkerSendCallback ==
  /\ pc[Worker] = "send_callback"
  /\ cbCalls' = [cbCalls EXCEPT ![job.job_id] = @ + 1]
  /\ \E url \in BOOLEAN :
       /\ callback_url' = url
       /\ IF url THEN Goto(Worker, "post") ELSE Goto(Worker, AfterCallback)
  /\ attempt' = 0
  /\ payload' = NoPayload
  /\ UNCHANGED << sem, queueVars, files, job, path, questions, pipeVars,
                  timedOut, submission, posts, delivered, removes, removeFailed, dequeued,
                  finished >>

\* A retry loop without the `return` after a successful POST: it goes on
\* to the next pass.
WorkerPost_NoReturnOnSuccess ==
  /\ pc[Worker] = "post"
  /\ posts' = posts + 1
  /\ \E ok \in BOOLEAN : delivered' = (delivered \/ ok)
  /\ attempt' = attempt + 1
  /\ IF attempt + 1 < AttemptsAllowed
       THEN UNCHANGED pc
       ELSE Goto(Worker, AfterCallback)
  /\ UNCHANGED << sem, queueVars, files, job, payload, path, callback_url,
                  questions, pipeVars, timedOut, submission, cbCalls, removes,
                  removeFailed, dequeued, finished >>

\* A retry loop whose except clause does not match: the exception of a
\* failed POST leaves _send_callback and the worker's loop.
WorkerPost_Uncaught ==
  /\ pc[Worker] = "post"
  /\ posts' = posts + 1
  /\ \E ok \in BOOLEAN :
       IF ok
         THEN /\ delivered' = TRUE
              /\ Goto(Worker, AfterCallback)
         ELSE /\ Goto(Worker, "dead")
              /\ UNCHANGED delivered
  /\ UNCHANGED << sem, queueVars, files, job, payload, path, callback_url,
                  attempt, questions, pipeVars, timedOut, submission, cbCalls, removes,
                  removeFailed, dequeued, finished >>

\* One pass of the retry loop: requests.post + raise_for_status either
\* succeeds (return) or raises RequestException (next attempt, if any).
WorkerPost ==
  /\ pc[Worker] = "post"
  /\ posts' = posts + 1
  /\ \E ok \in BOOLEAN :
       IF ok
         THEN /\ delivered' = TRUE
              /\ Goto(Worker, AfterCallback)
              /\ UNCHANGED attempt
         ELSE /\ attempt' = attempt + 1
              /\ IF attempt + 1 < AttemptsAllowed
                   THEN UNCHANGED pc
                   ELSE Goto(Worker, AfterCallback)
              /\ UNCHANGED delivered
  /\ UNCHANGED << sem, queueVars, files, job, payload, path, callback_url,
                  questions, pipeVars, timedOut, submission, cbCalls, removes, removeFailed,
                  dequeued, finished >>

\* if os.path.isfile(p): try os.remove(p), which can raise OSError.
RemoveFile(removed) ==
  IF job.image_path \in files
    THEN IF removed
           THEN /\ files' = files \ {job.image_path}
                /\ removes' = [removes EXCEPT ![job.job_id] = @ + 1]
                /\ UNCHANGED removeFailed
           ELSE /\ removeFailed' = removeFailed \cup {job.job_id}
                /\ UNCHANGED << files, removes >>
    ELSE UNCHANGED << files, removes, removeFailed >>

\* An except branch that ends the loop (`break`) instead of `continue`.
WorkerExceptRemove_Stops ==
  /\ pc[Worker] = "except_remove"
  /\ \E removed \in BOOLEAN : RemoveFile(removed)
  /\ Goto(Worker, "stopped")
  /\ UNCHANGED << sem, queueVars, workerVars, questions, pipeVars, timedOut, submission,
                  cbCalls, posts, delivered, dequeued, finished >>

\* The removal inside the two except branches, before `continue`.
WorkerExceptRemove ==
  /\ pc[Worker] = "except_remove"
  /\ \E removed \in BOOLEAN : RemoveFile(removed)
  /\ Goto(Worker, "finally")
  /\ UNCHANGED << sem, queueVars, workerVars, questions, pipeVars, timedOut, submission,
                  cbCalls, posts, delivered, dequeued, finished >>

\* _job_queue.task_done() is reached on the path that did not `continue`;
\* it raises ValueError when no put() is left to account for, and nothing
\* in the loop catches that.
TaskDone == path = "completed"

\* A loop body without the finally clause: nothing is removed at the end.
WorkerFinally_NoRemove ==
  /\ pc[Worker] = "finally"
  /\ unfinished' = IF TaskDone /\ unfinished > 0 THEN unfinished - 1 ELSE unfinished
  /\ finished' = Append(finished, job.job_id)
  /\ job' = NoJob
  /\ path' = "none"
  /\ callback_url' = FALSE
  /\ attempt' = 0
  /\ posts' = 0
  /\ delivered' = FALSE
  /\ Goto(Worker, IF TaskDone /\ unfinished = 0 THEN "dead" ELSE "get")
  /\ UNCHANGED << sem, queue, nextJob, files, payload, questions, pipeVars,
                  timedOut, submission, cbCalls, removes, removeFailed, dequeued >>

\* The outer finally clause, then task_done() unless the branch ended in
\* `continue`, then back to _job_queue.get() (or out of the loop, should
\* task_done() raise).
WorkerFinally ==
  /\ pc[Worker] = "finally"
  /\ \E removed \in BOOLEAN : RemoveFile(removed)
  /\ unfinished' = IF TaskDone /\ unfinished > 0 THEN unfinished - 1 ELSE unfinished
  /\ finished' = Append(finished, job.job_id)
  /\ job' = NoJob
  /\ path' = "none"
  /\ callback_url' = FALSE
  /\ attempt' = 0
  /\ posts' = 0
  /\ delivered' = FALSE
  /\ Goto(Worker, IF TaskDone /\ unfinished = 0 THEN "dead" ELSE "get")
  /\ UNCHANGED << sem, queue, nextJob, payload, questions, pipeVars,
                  timedOut, submission, cbCalls, dequeued >>

\* ------------------------------------------------------------------ system
Next ==
  \/ WorkerGet
  \/ WorkerOpen
  \/ WorkerAcquire
  \/ WorkerExit
  \/ WorkerSendCallback
  \/ WorkerPost
  \/ WorkerExceptRemove
  \/ WorkerFinally
  \/ \E h \in Handlers : RejectInput(h)
  \/ \E h \in Handlers : RejectReturn(h)
  \/ \E h \in Handlers : SubmitAsync(h)
  \/ \E h \in Handlers : SyncStart(h)
  \/ \E h \in Handlers : WaitTimesOut(h)
  \/ \E h \in Handlers : SyncAcquire(h)
  \/ \E h \in Handlers : SyncExit(h)

Spec == Init /\ [][Next]_vars

\* The thread scheduler lets every thread that can run take its next step,
\* and every pipeline run ends.  threading.Semaphore promises no order among
\* its waiters, so nothing more is assumed about who acquires.
WorkerStep ==
  \/ WorkerGet \/ WorkerOpen \/ WorkerAcquire \/ WorkerExit
  \/ WorkerSendCallback \/ WorkerPost \/ WorkerExceptRemove \/ WorkerFinally

HandlerStep(h) == SyncAcquire(h) \/ SyncExit(h) \/ RejectReturn(h)

Fairness ==
  /\ WF_vars(WorkerStep)
  /\ \A h \in Handlers : WF_vars(HandlerStep(h))

LiveSpec == Spec /\ Fairness

\* ------------------------------------------- async submission, by steps
\* The async branch of process() line by line, next to the worker: the save
\* and the put are separate steps, so the worker may run between them.

\* _save_image_to_temp(image, job_id) under a fresh uuid4; a save that is
\* swallowed when it raises, so that the job is queued all the same.
SaveImage_IgnoresFailure(h) ==
  /\ pc[h] = "idle"
  /\ nextJob <= MaxJobs
  /\ \E qs \in QuestionLists, saved \in BOOLEAN :
       /\ files' = IF saved THEN files \cup {nextJob} ELSE files
       /\ submission' = [submission EXCEPT ![h] =
                           [job_id |-> nextJob, image_path |-> nextJob,
                            questions |-> qs]]
  /\ nextJob' = nextJob + 1
  /\ Goto(h, "put")
  /\ UNCHANGED << sem, queue, unfinished, workerVars, questions, pipeVars,
                  timedOut, observerVars >>

\* job_id = str(uuid.uuid4()); image_path = _save_image_to_temp(image,
\* job_id).  When image.save raises, the exception leaves process().
SaveImage(h) ==
  /\ pc[h] = "idle"
  /\ nextJob <= MaxJobs
  /\ \E qs \in QuestionLists, saved \in BOOLEAN :
       IF saved
         THEN /\ files' = files \cup {nextJob}
              /\ submission' = [submission EXCEPT ![h] =
                                  [job_id |-> nextJob, image_path |-> nextJob,
                                   questions |-> qs]]
              /\ nextJob' = nextJob + 1
              /\ Goto(h, "put")
         ELSE /\ Goto(h, "save_failed")
              /\ UNCHANGED << files, submission, nextJob >>
  /\ UNCHANGED << sem, queue, unfinished, workerVars, questions, pipeVars,
                  timedOut, observerVars >>

\* The exception of image.save ends the request (Flask answers 500).
SaveFailed(h) ==
  /\ pc[h] = "save_failed"
  /\ Goto(h, "idle")
  /\ UNCHANGED << sem, queueVars, files, workerVars, questions, pipeVars,
                  timedOut, submission, observerVars >>

\* _job_queue.put({...}); return jsonify({"job_id": job_id}), 202
PutJob(h) ==
  /\ pc[h] = "put"
  /\ queue' = Append(queue, submission[h])
  /\ unfinished' = unfinished + 1
  /\ submission' = [submission EXCEPT ![h] = NoJob]
  /\ Goto(h, "idle")
  /\ UNCHANGED << sem, nextJob, files, workerVars, questions, pipeVars,
                  timedOut, observerVars >>

SubmitNext ==
  \/ WorkerGet
  \/ WorkerOpen
  \/ WorkerAcquire
  \/ WorkerExit
  \/ WorkerSendCallback
  \/ WorkerPost
  \/ WorkerExceptRemove
  \/ WorkerFinally
  \/ \E h \in Handlers : SaveImage(h)
  \/ \E h \in Handlers : SaveFailed(h)
  \/ \E h \in Handlers : PutJob(h)

SubmitSpec == Init /\ [][SubmitNext]_vars

\* ------------------------------------------------- lazy initialisation
\* Every thread of the service that runs process_receipt_image, and the
\* steps of the run that touch the module globals and the model handles.
\* A thread calls the pipeline only between the acquire and the release of
\* the pipeline semaphore; the check and the construction it guards are
\* separate steps, so a second thread may run between them.

\* Constructions that may raise in one run before the backends load.
MaxFailures == 2

Failures ==
  (runs["pipe"] - completed["pipe"])
    + (runs["processor"] - completed["processor"])
    + (runs["model"] - completed["model"])

\* The ways a from_pretrained / pipeline(...) call ends: TRUE = it returned.
LoadOutcomes == {TRUE} \cup (IF Failures < MaxFailures THEN {FALSE} ELSE {})

Started(k) == runs' = [runs EXCEPT ![k] = @ + 1]
StartedAndBuilt(k, ok) ==
  /\ Started(k)
  /\ completed' = [completed EXCEPT ![k] = IF ok THEN @ + 1 ELSE @]

LazyRest ==
  << queueVars, files, workerVars, questions, layoutlm_results, donut_data,
     response, receipt, result, failed, calls, timedOut, submission,
     observerVars >>

\* Variant: the pipeline is entered without waiting for the semaphore.
LazyAcquire_NoThrottle(t) ==
  /\ pc[t] = "call"
  /\ sem' = sem - 1
  /\ Goto(t, "get_layoutlm")
  /\ UNCHANGED << lazyVars, LazyRest >>

\* with _pipeline_semaphore: / _pipeline_semaphore.acquire()
LazyAcquire(t) ==
  /\ pc[t] = "call"
  /\ CanAcquire
  /\ sem' = sem - 1
  /\ Goto(t, "get_layoutlm")
  /\ UNCHANGED << lazyVars, LazyRest >>

\* get_layoutlm: the test "_layoutlm is None".
GetLayoutLM(t) ==
  /\ pc[t] = "get_layoutlm"
  /\ IF _layoutlm = 0
       THEN Goto(t, "new_layoutlm") /\ UNCHANGED local
       ELSE /\ local' = [local EXCEPT ![t].layoutlm = _layoutlm, ![t].q = 1]
            /\ Goto(t, "layoutlm_process")
  /\ UNCHANGED << sem, _layoutlm, _donut, pipe, processor, model, runs,
                  completed, LazyRest >>

\* get_layoutlm: _layoutlm = LayoutLMQA(); return _layoutlm
NewLayoutLM(t) ==
  /\ pc[t] = "new_layoutlm"
  /\ StartedAndBuilt("LayoutLMQA", TRUE)
  /\ _layoutlm' = runs'["LayoutLMQA"]
  /\ local' = [local EXCEPT ![t].layoutlm = _layoutlm', ![t].q = 1]
  /\ Goto(t, "layoutlm_process")
  /\ UNCHANGED << sem, _donut, pipe, processor, model, LazyRest >>

\* for q in questions: the loop moves on whether process returned or raised.
NextQuestion(t) ==
  IF local[t].q < NumQuestions
    THEN /\ local' = [local EXCEPT ![t].q = @ + 1]
         /\ Goto(t, "layoutlm_process")
    ELSE /\ local' = local
         /\ Goto(t, "get_donut")

\* LayoutLMQA.process: load_model's test "self.pipe is None", then inference.
LayoutLMProcess(t) ==
  /\ pc[t] = "layoutlm_process"
  /\ IF local[t].layoutlm \in pipe
       THEN NextQuestion(t)
       ELSE Goto(t, "layoutlm_load") /\ UNCHANGED local
  /\ UNCHANGED << sem, _layoutlm, _donut, pipe, processor, model, runs,
                  completed, LazyRest >>

\* LayoutLMQA.load_model: self.pipe = pipeline(...), which may raise.
LayoutLMLoad(t) ==
  /\ pc[t] = "layoutlm_load"
  /\ \E ok \in LoadOutcomes :
       /\ StartedAndBuilt("pipe", ok)
       /\ pipe' = IF ok THEN pipe \cup {local[t].layoutlm} ELSE pipe
  /\ NextQuestion(t)
  /\ UNCHANGED << sem, _layoutlm, _donut, processor, model, LazyRest >>

\* get_donut: the test "_donut is None".
GetDonut(t) ==
  /\ pc[t] = "get_donut"
  /\ IF _donut = 0
       THEN Goto(t, "new_donut") /\ UNCHANGED local
       ELSE /\ local' = [local EXCEPT ![t].donut = _donut]
            /\ Goto(t, "donut_process")
  /\ UNCHANGED << sem, _layoutlm, _donut, pipe, processor, model, runs,
                  completed, LazyRest >>

\* get_donut: _donut = DonutExtractor(); return _donut
NewDonut(t) ==
  /\ pc[t] = "new_donut"
  /\ StartedAndBuilt("DonutExtractor", TRUE)
  /\ _donut' = runs'["DonutExtractor"]
  /\ local' = [local EXCEPT ![t].donut = _donut']
  /\ Goto(t, "donut_process")
  /\ UNCHANGED << sem, _layoutlm, pipe, processor, model, LazyRest >>

\* DonutExtractor.process: load_model's test "self.model is None".
DonutProcess(t) ==
  /\ pc[t] = "donut_process"
  /\ Goto(t, IF local[t].donut \in model THEN "release" ELSE "donut_processor")
  /\ UNCHANGED << sem, lazyVars, LazyRest >>

\* DonutExtractor.load_model: self.processor = DonutProcessor.from_pretrained
DonutLoadProcessor(t) ==
  /\ pc[t] = "donut_processor"
  /\ \E ok \in LoadOutcomes :
       /\ StartedAndBuilt("processor", ok)
       /\ processor' = IF ok THEN processor \cup {local[t].donut} ELSE processor
       /\ Goto(t, IF ok THEN "donut_model" ELSE "release")
  /\ UNCHANGED << sem, _layoutlm, _donut, pipe, model, local, LazyRest >>

\* DonutExtractor.load_model: self.model = VisionEncoderDecoderModel...
DonutLoadModel(t) ==
  /\ pc[t] = "donut_model"
  /\ \E ok \in LoadOutcomes :
       /\ StartedAndBuilt("model", ok)
       /\ model' = IF ok THEN model \cup {local[t].donut} ELSE model
  /\ Goto(t, "release")
  /\ UNCHANGED << sem, _layoutlm, _donut, pipe, processor, local, LazyRest >>

\* The with block is left / finally: _pipeline_semaphore.release()
LazyRelease(t) ==
  /\ pc[t] = "release"
  /\ sem' = sem + 1
  /\ local' = [local EXCEPT ![t] = NoLocal]
  /\ Goto(t, "call")
  /\ UNCHANGED << _layoutlm, _donut, pipe, processor, model, runs, completed,
                  LazyRest >>

LazyInit ==
  /\ pc = [t \in Threads |-> "call"]
  /\ sem = 1
  /\ queue = << >>
  /\ unfinished = 0
  /\ files = {}
  /\ nextJob = 1
  /\ job = NoJob
  /\ payload = NoPayload
  /\ path = "none"
  /\ callback_url = FALSE
  /\ attempt = 0
  /\ questions = [t \in Threads |-> DEFAULT_QUESTIONS]
  /\ layoutlm_results = << >>
  /\ donut_data = EmptyDict
  /\ response = NoResponse
  /\ receipt = NoResult
  /\ result = NoResult
  /\ failed = {}
  /\ calls = << >>
  /\ LazyInitial
  /\ timedOut = [h \in Handlers |-> FALSE]
  /\ submission = [h \in Handlers |-> NoJob]
  /\ cbCalls = [j \in JobIds |-> 0]
  /\ posts = 0
  /\ delivered = FALSE
  /\ removes = [j \in JobIds |-> 0]
  /\ removeFailed = {}
  /\ dequeued = << >>
  /\ finished = << >>

LazyNext ==
  \/ \E t \in Threads : LazyAcquire(t)
  \/ \E t \in Threads : GetLayoutLM(t)
  \/ \E t \in Threads : NewLayoutLM(t)
  \/ \E t \in Threads : LayoutLMProcess(t)
  \/ \E t \in Threads : LayoutLMLoad(t)
  \/ \E t \in Threads : GetDonut(t)
  \/ \E t \in Threads : NewDonut(t)
  \/ \E t \in Threads : DonutProcess(t)
  \/ \E t \in Threads : DonutLoadProcessor(t)
  \/ \E t \in Threads : DonutLoadModel(t)
  \/ \E t \in Threads : LazyRelease(t)

LazySpec == LazyInit /\ [][LazyNext]_vars

\* ------------------------------------------------------------------ claims
Enqueued(j) == j < nextJob
Terminal(j) == j \in Range(finished)
CleanupPC == {"except_remove", "finally"}

\* C1: at most one execution of process_receipt_image is in flight at any
\* time, whatever the sync handlers and the worker do.
C1_MutualExclusion == InFlight <= 1

C1_Witness ==
  /\ pc[Worker] = "pipeline"
  /\ \A h \in Handlers : pc[h] = "acquire"

\* C2: for every dequeued job _send_callback is invoked exactly once: never
\* before the job is dequeued, once by the time the worker is past the call
\* (on the decode-failure, the exception and the success path), and never a
\* second time, also when the delivery failed.
C2_CallbackOnce ==
  \A j \in JobIds :
    /\ cbCalls[j] <= 1
    /\ j \notin Range(dequeued) => cbCalls[j] = 0
    /\ (job.job_id = j /\ pc[Worker] \in {"post"} \cup CleanupPC) => cbCalls[j] = 1
    /\ Terminal(j) => cbCalls[j] = 1

C2_Witness ==
  /\ pc[Worker] = "finally"
  /\ path = "decode"
  /\ callback_url /\ ~delivered
  /\ cbCalls[job.job_id] = 1

\* C3, as stated: the file of every job the worker has left was removed
\* exactly once and is gone.
C3_Original ==
  \A j \in Range(finished) : j \notin files /\ removes[j] = 1

\* C3, amended: a job's file is never removed twice; once the worker has left
\* the job the file was removed exactly once and is gone, unless os.remove
\* raised OSError on it and no removal succeeded: then it is left behind.
C3_Amended ==
  \A j \in JobIds :
    /\ removes[j] <= 1
    /\ Terminal(j) =>
         IF j \in files
           THEN j \in removeFailed /\ removes[j] = 0
           ELSE removes[j] = 1

C3_Witness ==
  /\ Len(finished) = 2
  /\ finished[1] \in files
  /\ finished[2] \notin files

\* C4: every acquisition is matched by exactly one release, on return and on
\* exception alike: the semaphore's value is 0 or 1, and it is 1 exactly when
\* no pipeline run is in flight.
C4_ReleaseOnce ==
  /\ sem \in {0, 1}
  /\ sem = 1 - InFlight

C4_Witness ==
  /\ pc[Worker] = "send_callback"
  /\ path = "exception"
  /\ sem = 1
  /\ \E h \in Handlers : pc[h] = "acquire"

C6_FIFO ==
  /\ \A i \in 1..Len(dequeued) : dequeued[i] = i
  /\ \A i \in 1..Len(queue) : queue[i].job_id = Len(dequeued) + i
  /\ Len(dequeued) + Len(queue) = nextJob - 1
  /\ finished = SubSeq(dequeued, 1, Len(finished))
  /\ Len(dequeued) <= Len(finished) + 1
  /\ \A j \in Range(finished) : cbCalls[j] = 1
  /\ pc[Worker] = "get" <=> Len(dequeued) = Len(finished)

C6_Witness ==
  /\ dequeued = << 1, 2 >>
  /\ finished = << 1 >>
  /\ pc[Worker] = "finally"

\* C7, as stated: every enqueued job eventually reaches its terminal outcome,
\* also while sync callers keep competing for the throttle.
C7_Original ==
  \A j \in JobIds : Enqueued(j) ~> Terminal(j)

\* C7, amended: every enqueued job eventually reaches its terminal outcome,
\* provided the worker is not kept waiting for the throttle forever.
C7_Amended ==
  ([]<>(pc[Worker] # "acquire")) => (\A j \in JobIds : Enqueued(j) ~> Terminal(j))

C7_Witness ==
  /\ Len(finished) = 1
  /\ pc[Worker] = "acquire"
  /\ \E h \in Handlers : pc[h] = "pipeline"
  /\ \E h \in Handlers : pc[h] = "acquire"

\* C8: when _send_callback has a URL and every POST fails, the loop ends
\* after exactly CALLBACK_RETRIES + 1 POSTs, and control is back in the
\* worker at the removal of the temporary image.
C8_RetriesThenCleanup ==
  [][(pc[Worker] = "post" /\ pc'[Worker] # "post" /\ ~delivered') =>
       (posts' = CALLBACK_RETRIES + 1 /\ pc'[Worker] \in CleanupPC)]_vars

C8_Witness ==
  /\ pc[Worker] = "finally"
  /\ path = "completed"
  /\ callback_url /\ ~delivered
  /\ posts = CALLBACK_RETRIES + 1

\* C9, as stated: a job handled with no CALLBACK_URL ends with no POST made
\* and its temporary image deleted.
C9_Original ==
  [][(pc[Worker] = "finally" /\ ~callback_url /\ pc'[Worker] = "get") =>
       (posts = 0 /\ job.image_path \notin files')]_vars

\* C9, amended: a job handled with no CALLBACK_URL ends with no POST made
\* and its temporary image deleted, unless os.remove raised OSError on it.
C9_Amended ==
  [][(pc[Worker] = "finally" /\ ~callback_url /\ pc'[Worker] = "get") =>
       /\ posts = 0
       /\ job.image_path \in files' => job.job_id \in removeFailed'
       /\ job.image_path \notin files' => removes'[job.job_id] = 1]_vars

C9_Witness ==
  /\ pc[Worker] = "finally"
  /\ path = "completed"
  /\ ~callback_url
  /\ cbCalls[job.job_id] = 1
  /\ posts = 0
  /\ job.image_path \in files

\* C10: a call of process_receipt_image always ends by returning a dict with
\* the keys receipt, receipt_meta, layoutlm_results and donut_data.
C10_NeverRaises ==
  pc[Caller] = "done" =>
    /\ ~result.raised
    /\ DOMAIN result.value =
         {"receipt", "receipt_meta", "layoutlm_results", "donut_data"}

\* ----------------------------------------- claims on process_receipt_image
Diagnostics == {"_error", "_raw"}
CallEnded == pc[Caller] = "done"
CallReturned == CallEnded /\ ~result.raised
ChatFailed == response.kind # "message" \/ IsEmptyText(response.text)

\* C11: normalize_receipt always returns a dict and never raises; when the
\* remote call failed (it raised, or the response was empty) the dict
\* carries an _error.
C11_AlwaysDict ==
  CallEnded =>
    /\ ~receipt.raised
    /\ ChatFailed => "_error" \in DOMAIN receipt.value

\* C12: layoutlm_results has one entry per question, in the order of the
\* questions; the entry of a question the LayoutLM call raised on is an
\* "[Error: ...]" answer, every other entry is the answer it has in a run
\* without failures, and the Donut stage and the normalizer run afterwards.
C12_StageIsolation ==
  pc[Caller] \in {"donut", "normalize", "done"} =>
    LET qs == questions[Caller]
    IN  /\ Len(layoutlm_results) = Len(qs)
        /\ \A i \in 1..Len(qs) :
             /\ layoutlm_results[i].question = qs[i]
             /\ layoutlm_results[i].answer =
                  IF i \in failed THEN "[Error: e]" ELSE "answer"
        /\ pc[Caller] \in {"normalize", "done"} => DOMAIN donut_data # {}
        /\ CallEnded => receipt # NoResult

C12_Witness ==
  /\ CallReturned
  /\ Len(questions[Caller]) = NumQuestions
  /\ failed = {1}

\* C13: the receipt of a returned call has exactly the nine RECEIPT_KEYS as
\* its keys, also as placed in the sync response and in the completed
\* payload: a key the normalizer's dict lacks is null, any other key of it
\* is dropped.
C13_ExactlyNineKeys ==
  CallReturned =>
    /\ DOMAIN result.value.receipt = Range(RECEIPT_KEYS)
    /\ \A k \in Range(RECEIPT_KEYS) :
         result.value.receipt[k] =
           IF k \in DOMAIN receipt.value THEN receipt.value[k] ELSE NULL
    /\ \A inc \in BOOLEAN :
         /\ DOMAIN _build_receipt_response(result.value, inc).receipt
              = Range(RECEIPT_KEYS)
         /\ DOMAIN CompletedPayload(1, result.value, inc).receipt
              = Range(RECEIPT_KEYS)

C13_Witness ==
  /\ CallReturned
  /\ response.kind = "message"
  /\ response.text.body = Object(PartialObject)
  /\ response.text.fence = "none"
  /\ result.value.receipt["store_name"] = "v"
  /\ result.value.receipt["date"] = NULL

\* The text json.loads is given: the response stripped, and cut down to the
\* inside of its closed fence when it has one.
ParsedText ==
  [pad |-> FALSE,
   fence |-> IF response.text.fence = "closed" THEN "none" ELSE response.text.fence,
   body |-> response.text.body]

AllNull(r) == \A k \in Range(RECEIPT_KEYS) : r[k] = NULL

\* C14, as stated: when the response text is not valid JSON the normalizer's
\* dict has _raw equal to the response text and an _error, and every field
\* of the projected receipt is null.
C14_Original ==
  (CallEnded /\ response.kind = "message" /\ ~JsonValid(response.text)) =>
    /\ ~receipt.raised
    /\ Diagnostics \subseteq DOMAIN receipt.value
    /\ receipt.value["_raw"] = response.text
    /\ AllNull(result.value.receipt)

\* C14, amended: when the response is not empty and its text, stripped and
\* cut down to the inside of its closed fence, is not valid JSON, the
\* normalizer's dict is _raw equal to that stripped and cut text plus an
\* _error, and every field of the projected receipt is null.
C14_Amended ==
  (CallEnded /\ response.kind = "message" /\ ~IsEmptyText(response.text)
     /\ ~JsonValid(ParsedText)) =>
    /\ ~receipt.raised
    /\ DOMAIN receipt.value = Diagnostics
    /\ receipt.value["_raw"] = ParsedText
    /\ receipt.value["_error"] = "Invalid JSON from LLM"
    /\ AllNull(result.value.receipt)

C14_Witness ==
  /\ CallReturned
  /\ response.kind = "message"
  /\ response.text = [pad |-> TRUE, fence |-> "closed", body |-> Garbage]
  /\ receipt.value["_raw"] # response.text

\* C15: the receipt never has the key _error or _raw; receipt_meta is not
\* None exactly when the normalizer's dict has one of them, and then it holds
\* those keys of it and nothing else.
C15_SideChannel ==
  CallReturned =>
    LET diag == DOMAIN receipt.value \cap Diagnostics
        meta == result.value.receipt_meta
    IN  /\ DOMAIN result.value.receipt \cap Diagnostics = {}
        /\ IsNone(meta) <=> diag = {}
        /\ ~IsNone(meta) =>
             /\ DOMAIN meta = diag
             /\ \A k \in diag : meta[k] = receipt.value[k]

C15_Witness ==
  /\ CallReturned
  /\ response.kind = "message"
  /\ response.text.body = Array
  /\ DOMAIN result.value.receipt_meta = Diagnostics

\* ------------------------------------------------- claims on the front door
PayloadKeys == {"job_id", "status", "receipt", "raw", "receipt_meta", "error"}
ErrorStrings == {"Failed to load image", "connection failed"}

\* C16: the payload the worker hands to _send_callback carries the id of
\* the job in hand and the status completed or failed; it has a receipt,
\* with all nine keys, exactly when the status is completed, and an error
\* string exactly when the status is failed.
C16_PayloadShape ==
  pc[Worker] = "send_callback" =>
    /\ DOMAIN payload \subseteq PayloadKeys
    /\ payload.job_id = job.job_id
    /\ payload.status \in {"completed", "failed"}
    /\ payload.status = "completed" <=> path = "completed"
    /\ "receipt" \in DOMAIN payload <=> payload.status = "completed"
    /\ "error" \in DOMAIN payload <=> payload.status = "failed"
    /\ payload.status = "completed" =>
         DOMAIN payload.receipt = Range(RECEIPT_KEYS)
    /\ payload.status = "failed" => payload.error \in ErrorStrings

C16_Witness ==
  /\ pc[Worker] = "send_callback"
  /\ payload.status = "completed"
  /\ {"raw", "receipt_meta"} \subseteq DOMAIN payload

\* C17: an async submission is never held up: whenever a request thread is
\* at the start of a request the submission can enqueue its job, whatever
\* the backlog and whoever holds the throttle, and the step that enqueues
\* leaves the semaphore and every thread's position as they were.
C17_NeverBlocks ==
  /\ [](\A h \in Handlers :
          (pc[h] = "idle" /\ nextJob <= MaxJobs) =>
            ENABLED (SubmitAsync(h) /\ Len(queue') = Len(queue) + 1))
  /\ [][Len(queue') > Len(queue) =>
          /\ sem' = sem
          /\ pc' = pc
          /\ SubSeq(queue', 1, Len(queue)) = queue
          /\ queue'[Len(queue')].job_id = nextJob]_vars

C17_Witness ==
  /\ pc[Worker] = "pipeline"
  /\ sem = 0
  /\ Len(queue) = 1
  /\ \E h \in Handlers : pc[h] = "acquire"

\* What a job's lifecycle touches.
lifecycleVars == << sem, queueVars, files, workerVars, observerVars >>

\* C18: a request whose image cannot be loaded is turned away and leaves no
\* trace: from the failed load to the 400 response its thread enqueues
\* nothing, writes no file, does not touch the semaphore and sends no
\* callback, and it goes nowhere but back out.
C18_RejectedLeavesNoTrace ==
  [][\A h \in Handlers :
       /\ (pc[h] = "idle" /\ pc'[h] = "reject") => UNCHANGED lifecycleVars
       /\ (pc[h] = "reject" /\ pc'[h] # "reject") =>
            pc'[h] = "idle" /\ UNCHANGED lifecycleVars]_vars

C18_Witness ==
  /\ \E h \in Handlers : pc[h] = "reject"
  /\ \E h \in Handlers : pc[h] = "pipeline"
  /\ queue # << >>

WorkerLoopPC ==
  {"get", "open", "acquire", "pipeline", "send_callback", "post",
   "except_remove", "finally"}

\* C19: no job ends the worker's loop: the worker is always inside the
\* loop, and once it has left a job, whatever the outcome, it is back at
\* _job_queue.get() and takes the next job if there is one.
C19_WorkerSurvives ==
  /\ pc[Worker] \in WorkerLoopPC
  /\ Len(finished) = Len(dequeued) =>
       /\ pc[Worker] = "get"
       /\ queue # << >> => ENABLED WorkerGet

C19_Witness ==
  /\ Len(finished) = 1
  /\ finished[1] \in removeFailed
  /\ finished[1] \in files
  /\ Len(dequeued) = 2
  /\ pc[Worker] = "finally"
  /\ callback_url /\ ~delivered

\* ------------------------------------------- claims on lazy initialisation
InPipeline == {t \in Threads : pc[t] # "call"}
Constructing ==
  {t \in Threads : pc[t] \in {"new_layoutlm", "layoutlm_load", "new_donut",
                              "donut_processor", "donut_model"}}

\* C20 as stated: under any interleaving of the threads, no construction
\* (a wrapper object, the LayoutLM pipe, the Donut processor or model) is
\* ever run a second time in the process.
C20_Original == \A k \in Parts : runs[k] <= 1

\* C20 amended: under any interleaving of the threads, each wrapper object
\* is made at most once, the LayoutLM pipe and the Donut model are built to
\* completion at most once, no two threads are inside the pipeline at once,
\* every call works on the first wrapper objects, and a construction is
\* started again only after an earlier one raised (the Donut processor is
\* reloaded once for every earlier failed load of the model).
C20_Amended ==
  /\ [](/\ \A k \in Parts \ {"processor"} : completed[k] <= 1
        /\ _layoutlm <= 1 /\ _donut <= 1
        /\ pipe \subseteq {_layoutlm} /\ model \subseteq {_donut}
        /\ Cardinality(InPipeline) <= 1
        /\ \A t \in Threads :
             /\ local[t].layoutlm \in {0, _layoutlm}
             /\ local[t].donut \in {0, _donut}
        /\ completed["processor"] <= (runs["model"] - completed["model"]) + 1)
  /\ [][\A k \in Parts \ {"processor"} :
          completed[k] >= 1 => runs'[k] = runs[k]]_vars

\* A later call finds both wrapper objects and the Donut model already
\* built and reuses them; the first load of the LayoutLM pipe had raised and
\* the load was run a second time.
C20_Witness ==
  /\ runs["pipe"] = 2 /\ completed["pipe"] = 1
  /\ runs["LayoutLMQA"] = 1 /\ runs["DonutExtractor"] = 1
  /\ \E t \in Handlers :
       /\ pc[t] = "donut_process"
       /\ local[t].layoutlm = 1 /\ local[t].layoutlm \in pipe
       /\ local[t].donut = 1 /\ local[t].donut \in model

\* ------------------------------------------ claims on the order of a run
\* The calls a run on the question list qs has to make, in their order.
CallsForQuestions(qs) ==
  [i \in 1..Len(qs) |-> [stage |-> "layoutlm", question |-> qs[i]]]

\* C21: in one run of process_receipt_image the question stage is called
\* for every question in list order, then the document stage once, then the
\* normalizer once with both stage outputs, also when stage calls fail.
C21_FixedOrder ==
  LET qs == questions[Caller]
      n == Len(qs)
  IN  /\ pc[Caller] = "layoutlm" => calls = << >>
      /\ pc[Caller] = "donut" => calls = CallsForQuestions(qs)
      /\ pc[Caller] = "normalize" =>
           calls = Append(CallsForQuestions(qs), DonutCall)
      /\ pc[Caller] = "done" =>
           /\ Len(calls) = n + 2
           /\ SubSeq(calls, 1, n) = CallsForQuestions(qs)
           /\ calls[n + 1] = DonutCall
           /\ calls[n + 2] = NormalizeCall(layoutlm_results, donut_data)
           /\ Len(layoutlm_results) = n
           /\ donut_data # EmptyDict

\* A run whose first question and whose document stage both failed has
\* still made every call.
C21_Witness ==
  /\ pc[Caller] = "done"
  /\ Len(questions[Caller]) = NumQuestions
  /\ 1 \in failed
  /\ "_error" \in DOMAIN donut_data
  /\ Len(calls) = NumQuestions + 2

\* ------------------------------------------ claims on the async hand-over
\* C22: the image of a job is on disk before the job is put on the queue:
\* every queued job and every job the worker has just taken has its file, a
\* put only ever follows the save of that job's image, and a request whose
\* save failed puts nothing.
C22_SavedBeforeQueued ==
  /\ [](/\ \A i \in 1..Len(queue) : queue[i].image_path \in files
        /\ pc[Worker] = "open" => job.image_path \in files)
  /\ [][Len(queue') > Len(queue) =>
          \E h \in Handlers :
            /\ pc[h] = "put"
            /\ queue' = Append(queue, submission[h])
            /\ submission[h].image_path \in files]_vars
  /\ [][\A h \in Handlers :
          pc[h] = "save_failed" /\ pc'[h] # pc[h] =>
            pc'[h] = "idle" /\ queue' = queue /\ files' = files]_vars

\* The worker has taken a job while another request sits between its save
\* and its put, and a third save has failed.
C22_Witness ==
  /\ pc[Worker] = "open"
  /\ job.image_path \in files
  /\ \E h \in Handlers : pc[h] = "put" /\ submission[h].image_path \in files
  /\ \E h \in Handlers : pc[h] = "save_failed"

\* ------------------------------------------- claims on the worker's paths
\* Positions of the worker on the way from a failed payload to the next job.
CallbackAndCleanupPC == {"send_callback", "post", "except_remove", "finally"}

\* C23: a job whose image failed to decode goes straight to the failed
\* callback and the cleanup: the worker is never at the acquire or inside
\* process_receipt_image for it, and no step it takes for that job changes
\* the semaphore.
C23_DecodeFailureSkipsPipeline ==
  /\ [](path = "decode" =>
          /\ pc[Worker] \in CallbackAndCleanupPC
          /\ questions[Worker] = << >>
          /\ pc[Worker] = "send_callback" =>
               /\ payload.status = "failed"
               /\ payload.job_id = job.job_id
               /\ cbCalls[job.job_id] = 0)
  /\ [][pc[Worker] = "open" /\ pc'[Worker] \notin {"open", "acquire"} =>
          path' = "decode" /\ pc'[Worker] = "send_callback" /\ sem' = sem]_vars
  /\ [][path = "decode" /\ WorkerStep => sem' = sem]_vars

\* The worker has sent the failed callback of an undecodable job and is
\* about to finish it while a synchronous request holds the throttle.
C23_Witness ==
  /\ path = "decode"
  /\ pc[Worker] = "finally"
  /\ cbCalls[job.job_id] = 1
  /\ sem = 0
  /\ \E h \in Handlers : pc[h] = "pipeline"

\* C24: a _send_callback call with CALLBACK_URL set makes at least one and
\* at most CALLBACK_RETRIES + 1 POSTs; every POST but the first follows a
\* failed one, none follows a successful one, and the call returns to the
\* worker both when a POST was delivered and when all were used up.
C24_BoundedAttempts ==
  /\ [](callback_url =>
          /\ posts <= CALLBACK_RETRIES + 1
          /\ pc[Worker] = "post" =>
               /\ ~delivered
               /\ posts = attempt
               /\ posts <= CALLBACK_RETRIES
          /\ pc[Worker] \in CleanupPC =>
               /\ posts >= 1
               /\ delivered \/ posts = CALLBACK_RETRIES + 1
               /\ attempt = IF delivered THEN posts - 1 ELSE posts)
  /\ [][pc[Worker] = "post" =>
          /\ pc'[Worker] \in {"post"} \cup CleanupPC
          /\ posts' \in {posts, posts + 1}
          /\ delivered' /\ posts' # posts => pc'[Worker] \in CleanupPC]_vars

\* The call has returned after a failed POST followed by a delivered one.
C24_Witness ==
  /\ callback_url
  /\ pc[Worker] \in CleanupPC
  /\ delivered
  /\ posts = 2

\* The messages of the exceptions that leave process_receipt_image.
PipelineErrors ==
  LET ends == UNION { { process_receipt_image(qs, fails, o, chat) :
                          fails \in SUBSET (1..Len(qs)), o \in DonutOutcomes,
                          chat \in ChatClasses } : qs \in QuestionLists }
  IN  {r.error : r \in {x \in ends : x.raised}}

\* Whether a call raises is decided by the normalizer's backend alone:
\* failed questions, a failed Donut call and a normalization that yields
\* diagnostics all end in a returned result with the nine keys.
StageErrorsReturn ==
  \A qs \in QuestionLists, o \in DonutOutcomes, chat \in ChatClasses :
    \A fails \in SUBSET (1..Len(qs)) :
      LET r == process_receipt_image(qs, fails, o, chat)
      IN  /\ r.raised <=> normalize_receipt(chat).raised
          /\ ~r.raised => DOMAIN r.value.receipt = Range(RECEIPT_KEYS)

\* C25: the status handed to _send_callback is "failed" exactly on the
\* decode-failure branch and on the branch where process_receipt_image
\* raised; failed questions, a failed Donut call and normalizer diagnostics
\* leave it "completed" with a nine-key receipt, and the delivery of the
\* callback does not change which branch the job is on.
C25_StatusFailedIff ==
  /\ [](/\ StageErrorsReturn
        /\ pc[Worker] = "send_callback" =>
             /\ payload.status = "failed" <=> path \in {"decode", "exception"}
             /\ path = "decode" => payload.error = "Failed to load image"
             /\ path = "exception" => payload.error \in PipelineErrors
             /\ path \notin {"decode", "exception"} =>
                  /\ payload.status = "completed"
                  /\ DOMAIN payload.receipt = Range(RECEIPT_KEYS))
  /\ [][pc[Worker] \in {"send_callback", "post"} => path' = path]_vars

\* A completed payload whose raw part shows a failed question and a failed
\* Donut call and whose receipt_meta carries the normalizer's _error.
C25_Witness ==
  /\ pc[Worker] = "send_callback"
  /\ payload.status = "completed"
  /\ {"raw", "receipt_meta"} \subseteq DOMAIN payload
  /\ "_error" \in DOMAIN payload.raw.donut
  /\ payload.raw.layoutlm[1].answer = "[Error: e]"
  /\ "_error" \in DOMAIN payload.receipt_meta
  /\ DOMAIN payload.receipt = Range(RECEIPT_KEYS)

\* Positions of the worker outside process_receipt_image: waiting on the
\* queue, decoding, about to acquire, in the callback, removing the file.
WorkerOutsidePC ==
  {"get", "open", "acquire", "send_callback", "post", "except_remove",
   "finally"}

\* Permits of the semaphore that are out while the worker is not inside
\* the pipeline, and the sync requests that hold them.
HandlersInside == {h \in Handlers : pc[h] \in PipelinePC}

\* C26: the worker holds the semaphore only inside process_receipt_image:
\* at every other position each missing permit is held by a sync request,
\* the worker is at such a position from the release to the next acquire,
\* and a sync caller waiting while the worker delivers a callback or cleans
\* up can acquire as soon as no other sync request is inside.
C26_HeldOnlyInPipeline ==
  /\ pc[Worker] \in WorkerOutsidePC \cup PipelinePC
  /\ pc[Worker] \in WorkerOutsidePC => sem = 1 - Cardinality(HandlersInside)
  /\ pc[Worker] \in PipelinePC => sem = 0 /\ HandlersInside = {}
  /\ \A h \in Handlers :
       /\ pc[h] = "acquire"
       /\ pc[Worker] \in WorkerOutsidePC
       /\ HandlersInside = {}
       => ENABLED SyncAcquire(h)

\* After every POST of a job's callback has failed so far, the semaphore is
\* free and a waiting sync caller can take it.
C26_Witness ==
  /\ pc[Worker] = "post"
  /\ attempt = CALLBACK_RETRIES
  /\ sem = 1
  /\ \E h \in Handlers : pc[h] = "acquire" /\ ENABLED SyncAcquire(h)

\* C27: task_done() is called once for every job the worker has left, on
\* the decode-failure, exception and success paths alike: the queue's count
\* of unfinished tasks is the number of jobs put minus the number of jobs
\* the worker has finished, and is zero once every job put is finished.
C27_TaskDoneEveryJob ==
  /\ unfinished = (nextJob - 1) - Len(finished)
  /\ (\A j \in JobIds : Enqueued(j) => Terminal(j)) => unfinished = 0

====
